---- MODULE Spec2Model ----
(***************************************************************************)
(* Model of the "file upload" command of fabric-cli-ext.                   *)
(*                                                                         *)
(* Two variants of the command exist in the sources:                       *)
(*   "otp" : src/cmd/file/uploadcmd/uploadcmd.go   (one-time passwords)    *)
(*   "sig" : src/scripts/integration.sh, lines 13-529 (signed update)      *)
(* They share the orchestration (validateAndProcessArgs, run) and differ   *)
(* in validateSigningKey, getUpdatePatch and getUpdateRequest.             *)
(*                                                                         *)
(* Go strings that the code indexes or slices (URLs, paths, file names,    *)
(* the prompt response) are sequences of one-character strings; strings    *)
(* the code only compares with "" or passes on are TLA+ strings.           *)
(***************************************************************************)
EXTENDS Integers, Sequences, FiniteSets, TLC

VARIABLES
    variant,   \* which command implementation runs: "otp" or "sig"
    c,         \* the command struct: flags and the fields derived from them
    pc,        \* position of the run (orchestrator state)
    err,       \* the error the command returned, "nil" if none
    fileIdx,   \* run(): fileIdx, the index mapping fetched by getFileIndex
    f,         \* run(): f, the loaded files ([]*fileInfo)
    net,       \* every request the httpClient has sent, with its response
    out,       \* the terminal: what was written to Streams.Out, what Prompt read
    upd,       \* what updateIndexFile computed (patch, request)
    server,    \* the index document the server holds, and other writers
    dcas,      \* the contents stored in DCAS
    uploaded,  \* run(): how many iterations of the upload loop have completed
    call       \* a single call of a pure function (function specifications)

vars == <<variant, c, pc, err, fileIdx, f, net, out, upd, server, dcas, uploaded, call>>

runVars == <<variant, c, pc, err, fileIdx, f, net, out, upd, server, dcas, uploaded>>

(***************************************************************************)
(* Bounds of the model.                                                    *)
(***************************************************************************)
MaxFiles == 2      \* paths in --files
MaxWrites == 1     \* changes other writers make to the server's index
MaxPatchFiles == 2 \* files handed to getUpdatePatch in SpecPatch
MaxLen == 4        \* length of the ids handed to getUniqueSuffix in SpecSuffix

(***************************************************************************)
(* Constants of the program.                                               *)
(***************************************************************************)
StatusOK == 200
StatusNotFound == 404
StatusInternalServerError == 500
sha2_256 == 18

jsonPatchBasePath == <<"/", "f", "i", "l", "e", "I", "n", "d", "e", "x", "/", "m", "a", "p", "p", "i", "n", "g", "s", "/">>
jsonPatchAddOp == "add"
jsonPatchReplaceOp == "replace"
msgAborted == "Operation aborted"
msgContinueOrAbort == "Enter Y to continue or N to abort "

nil == "nil"
errURLRequired == "URL (--url) is required"
errFilesRequired == "files (--files) is required"
errFileIndexURLRequired == "file index URL (--idxurl) is required"
errFileIndexUpdateOTPRequired == "password (--pwd) required"
errFileIndexNextUpdateOTPRequired == "next update password (--nextpwd) required"
errNoFileExtension == "content type cannot be deduced since no file extension provided"
errUnknownExtension == "content type cannot be deduced from extension"
errSigningKeyOrFileRequired == "either signing key (--signingkey) or key file (--signingkeyfile) is required"
errOnlyOneOfSigningKeyOrFileRequired == "only one of signing key (--signingkey) or key file (--signingkeyfile) may be specified"
errPrivateKeyNotFoundInPEM == "private key not found in PEM"
errInvalidURL == "invalid URL"
errNoBasePath == "invalid URL - no base path found"
errInvalidFileIndexURL == "invalid file index URL"
errIndexNotFound == "file index document not found"
errIndexStatus == "error retrieving file index document"
errBasePathMismatch == "base path of file index doc does not match the base path of the file"
errUploadStatus == "status code"
errUpdateStatus == "error updating file index document"
errNoUniqueSuffix == "unique suffix not provided in URL"
errTransport == "transport error"
errUnmarshal == "json: cannot unmarshal"
errReadFile == "open: no such file or directory"
errWrite == "write error"
errParseECPrivateKey == "x509: failed to parse EC private key"

(***************************************************************************)
(* The inputs the model draws from.                                        *)
(***************************************************************************)
UrlContent == <<"h", "t", "t", "p", ":", "/", "/", "h", "/", "c", "o", "n", "t", "e", "n", "t">>
UrlNoPath == <<"h", "t", "t", "p", ":", "/", "/", "h">>
UrlBad == <<":", "x">>
IdxUrlFull == <<"h", "t", "t", "p", ":", "/", "/", "h", "/", "f", "i", "l", "e", "/", "f", "i", "l", "e", ":", "i", "d", "x", ":", "A", "B", "C", "1", "2", "3">>
IdxUrlNoColon == <<"h", "/", "f", "i", "l", "e", "/", "i", "d", "x">>
IdxUrlNoSlash == <<"i", "d", "x">>
PathA == <<".", "/", "a", ".", "j", "s", "o", "n">>
PathB == <<"d", "/", "b", ".", "p", "n", "g">>
PathReadme == <<"R", "E", "A", "D", "M", "E">>
PathZzz == <<"x", ".", "z", "z", "z">>
PathMissing == <<"m", ".", "j", "s", "o", "n">>
NameA == <<"a", ".", "j", "s", "o", "n">>
NameB == <<"b", ".", "p", "n", "g">>
BaseContent == <<"/", "c", "o", "n", "t", "e", "n", "t">>
BaseOther == <<"/", "o", "t", "h", "e", "r">>
SuffixABC == <<"A", "B", "C", "1", "2", "3">>

Urls == {<<>>, UrlBad, UrlNoPath, UrlContent}
IdxUrls == {<<>>, IdxUrlNoSlash, IdxUrlNoColon, IdxUrlFull}
Paths == {PathA, PathB, PathReadme, PathZzz, PathMissing}
IDs == {"X", "Y"}
Responses == {<<"y">>, <<"Y">>, <<"n">>, <<>>, <<"y", "e", "s">>}

(***************************************************************************)
(* Go's string functions, on sequences of characters.                      *)
(***************************************************************************)

\* Go passes arguments by value: the operator is applied to the values of its
\* arguments, which are computed once
Call(F(_), x) == CHOOSE r \in {F(v) : v \in {x}} : TRUE
Call2(F(_, _), x, y) == CHOOSE r \in {F(v, w) : v \in {x}, w \in {y}} : TRUE

\* strings.LastIndex(s, ch): the 0-based index of the last ch in s, or -1
LastIndex(s, ch) ==
    IF \E i \in 1..Len(s) : s[i] = ch
    THEN (CHOOSE i \in 1..Len(s) :
             s[i] = ch /\ \A j \in (i + 1)..Len(s) : s[j] # ch) - 1
    ELSE -1

\* strings.Index(s, ch): the 0-based index of the first ch in s, or -1
Index(s, ch) ==
    IF \E i \in 1..Len(s) : s[i] = ch
    THEN (CHOOSE i \in 1..Len(s) :
             s[i] = ch /\ \A j \in 1..(i - 1) : s[j] # ch) - 1
    ELSE -1

\* the slice s[from:] (from is 0-based)
SliceFrom(s, from) == SubSeq(s, from + 1, Len(s))

\* the slice s[0:to] (to is 0-based, exclusive)
SliceTo(s, to) == SubSeq(s, 1, to)

\* strings.Split(s, sep) for a one-character separator
RECURSIVE Split(_, _)
Split(s, sep) ==
    LET p == Index(s, sep)
    IN  IF p = -1 THEN <<s>>
        ELSE <<SliceTo(s, p)>> \o Call2(Split, SliceFrom(s, p + 1), sep)

\* strings.Join(elems, sep) (used to write the --files flag)
RECURSIVE Join(_, _)
Join(elems, sep) ==
    IF Len(elems) = 0 THEN <<>>
    ELSE IF Len(elems) = 1 THEN elems[1]
    ELSE elems[1] \o <<sep>> \o Join(Tail(elems), sep)

LowerOf == ("A" :> "a") @@ ("B" :> "b") @@ ("C" :> "c") @@ ("D" :> "d") @@ ("E" :> "e") @@ ("F" :> "f") @@ ("G" :> "g") @@ ("H" :> "h") @@ ("I" :> "i") @@ ("J" :> "j") @@ ("K" :> "k") @@ ("L" :> "l") @@ ("M" :> "m") @@ ("N" :> "n") @@ ("O" :> "o") @@ ("P" :> "p") @@ ("Q" :> "q") @@ ("R" :> "r") @@ ("S" :> "s") @@ ("T" :> "t") @@ ("U" :> "u") @@ ("V" :> "v") @@ ("W" :> "w") @@ ("X" :> "x") @@ ("Y" :> "y") @@ ("Z" :> "z")

\* strings.ToLower(s)
ToLower(s) ==
    [i \in 1..Len(s) |-> IF s[i] \in DOMAIN LowerOf THEN LowerOf[s[i]] ELSE s[i]]

(***************************************************************************)
(* Library functions the command calls (net/url, mime, path/filepath,      *)
(* io/ioutil, encoding/json, json-patch), as far as the command uses them. *)
(***************************************************************************)
Letters == DOMAIN LowerOf \cup {LowerOf[x] : x \in DOMAIN LowerOf}
SchemeMarks == {"0", "1", "2", "3", "4", "5", "6", "7", "8", "9", "+", "-", "."}

\* net/url getScheme: [err, scheme, rest]
RECURSIVE getScheme(_, _)
getScheme(rawURL, i) ==
    IF i > Len(rawURL) THEN [err |-> nil, scheme |-> <<>>, rest |-> rawURL]
    ELSE IF rawURL[i] \in Letters THEN getScheme(rawURL, i + 1)
    ELSE IF rawURL[i] \in SchemeMarks
         THEN IF i = 1 THEN [err |-> nil, scheme |-> <<>>, rest |-> rawURL]
              ELSE getScheme(rawURL, i + 1)
    ELSE IF rawURL[i] = ":"
         THEN IF i = 1 THEN [err |-> errInvalidURL, scheme |-> <<>>, rest |-> <<>>]
              ELSE [err |-> nil, scheme |-> SliceTo(rawURL, i - 1),
                    rest |-> SliceFrom(rawURL, i)]
    ELSE [err |-> nil, scheme |-> <<>>, rest |-> rawURL]

HasPrefix(s, prefix) ==
    Len(s) >= Len(prefix) /\ SliceTo(s, Len(prefix)) = prefix

\* url.Parse(rawURL), for URLs without query, fragment, user info or escapes:
\* [err, Path]
urlParse(rawURL) ==
    LET g == getScheme(rawURL, 1)
        rest == g.rest
        seg == IF Index(rest, "/") = -1 THEN rest ELSE SliceTo(rest, Index(rest, "/"))
    IN  IF g.err # nil THEN [err |-> g.err, Path |-> <<>>]
        ELSE IF ~HasPrefix(rest, <<"/">>) /\ g.scheme # <<>>
             THEN [err |-> nil, Path |-> <<>>]           \* opaque URL
        ELSE IF ~HasPrefix(rest, <<"/">>) /\ Index(seg, ":") # -1
             THEN [err |-> errInvalidURL, Path |-> <<>>]
        ELSE IF HasPrefix(rest, <<"/", "/">>)
                 /\ (g.scheme # <<>> \/ ~HasPrefix(rest, <<"/", "/", "/">>))
             THEN LET auth == SliceFrom(rest, 2)
                      p == Index(auth, "/")
                  IN  [err |-> nil,
                       Path |-> IF p = -1 THEN <<>> ELSE SliceFrom(auth, p)]
        ELSE [err |-> nil, Path |-> rest]

\* mime.TypeByExtension(ext): "" when the extension is unknown
TypeByExtension(ext) ==
    IF ext = <<".", "j", "s", "o", "n">> THEN "application/json"
    ELSE IF ext = <<".", "p", "n", "g">> THEN "image/png"
    ELSE ""

\* filepath.Clean(path), for paths without "..", doubled or trailing slashes
RECURSIVE Clean(_)
Clean(path) ==
    IF path = <<>> THEN <<".">>
    ELSE IF HasPrefix(path, <<".", "/">>) /\ Len(path) > 2 THEN Call(Clean, SliceFrom(path, 2))
    ELSE path

\* the local file system: the content of each readable file
FileSystem ==
    (<<"a", ".", "j", "s", "o", "n">> :> "bytes of a.json")
    @@ (PathB :> "bytes of b.png")
    @@ (PathReadme :> "bytes of README")
    @@ (PathZzz :> "bytes of x.zzz")

\* ioutil.ReadFile(name): [err, content]
ReadFile(name) ==
    IF name \in DOMAIN FileSystem
    THEN [err |-> nil, content |-> FileSystem[name]]
    ELSE [err |-> errReadFile, content |-> ""]

\* json.Marshal(patch) of a []jsonPatch, as its sequence of JSON tokens
RECURSIVE MarshalEntries(_)
MarshalEntries(patch) ==
    IF Len(patch) = 0 THEN <<>>
    ELSE <<"{", "op", patch[1].Op, "path", patch[1].Path, "value", patch[1].Value, "}">>
         \o Call(MarshalEntries, Tail(patch))

Marshal(patch) ==
    IF Len(patch) = 0 THEN <<"null">>
    ELSE <<"[">> \o MarshalEntries(patch) \o <<"]">>

\* jsonpatch.DecodePatch(buf): [err, patch], patch a sequence of operations,
\* each a map with the keys the JSON object has
RECURSIVE DecodeEntries(_)
DecodeEntries(toks) ==
    IF Len(toks) = 0 THEN [err |-> nil, patch |-> <<>>]
    ELSE IF Len(toks) < 8 \/ toks[1] # "{" \/ toks[8] # "}"
         THEN [err |-> errUnmarshal, patch |-> <<>>]
    ELSE LET rest == Call(DecodeEntries, SubSeq(toks, 9, Len(toks)))
             op == (toks[2] :> toks[3]) @@ (toks[4] :> toks[5]) @@ (toks[6] :> toks[7])
         IN  IF rest.err # nil THEN rest
             ELSE [err |-> nil, patch |-> <<op>> \o rest.patch]

DecodePatch(buf) ==
    IF buf = <<"null">> THEN [err |-> nil, patch |-> <<>>]
    ELSE IF Len(buf) < 2 \/ buf[1] # "[" \/ buf[Len(buf)] # "]"
         THEN [err |-> errUnmarshal, patch |-> <<>>]
    ELSE Call(DecodeEntries, SubSeq(buf, 2, Len(buf) - 1))

\* docutil.EncodeToString(bytes): the base64url text of the bytes
EncodeToString(bytes) == [base64url |-> bytes]

(***************************************************************************)
(* The functions of the command.                                           *)
(***************************************************************************)

\* a contentTypeFromFileName that falls back to a default content type when
\* the name has no extension
contentTypeOrDefault(fileName) ==
    LET p == LastIndex(fileName, ".")
    IN  IF p = -1 THEN [err |-> nil, contentType |-> "application/octet-stream"]
        ELSE IF TypeByExtension(SliceFrom(fileName, p)) = ""
             THEN [err |-> errUnknownExtension, contentType |-> ""]
        ELSE [err |-> nil, contentType |-> TypeByExtension(SliceFrom(fileName, p))]

\* contentTypeFromFileName(fileName): [err, contentType]
contentTypeFromFileName(fileName) ==
    LET p == LastIndex(fileName, ".")
    IN  IF p = -1 THEN [err |-> errNoFileExtension, contentType |-> ""]
        ELSE IF TypeByExtension(SliceFrom(fileName, p)) = ""
             THEN [err |-> errUnknownExtension, contentType |-> ""]
        ELSE [err |-> nil, contentType |-> TypeByExtension(SliceFrom(fileName, p))]

\* getFileInfo(path): [err, info]
getFileInfo(path) ==
    LET p == LastIndex(path, "/")
        fileName == IF p = -1 THEN path ELSE SliceFrom(path, p + 1)
        ct == Call(contentTypeFromFileName, fileName)
        rd == Call(ReadFile, Clean(path))
    IN  IF ct.err # nil THEN [err |-> ct.err, info |-> nil]
        ELSE IF rd.err # nil THEN [err |-> rd.err, info |-> nil]
        ELSE [err |-> nil,
              info |-> [Name |-> fileName, Content |-> rd.content,
                        ContentType |-> ct.contentType, ID |-> ""]]

\* the loop of getFiles over the split paths: [err, files]
RECURSIVE getFilesLoop(_, _)
getFilesLoop(paths, acc) ==
    IF Len(paths) = 0 THEN [err |-> nil, files |-> acc]
    ELSE LET fi == Call(getFileInfo, paths[1])
         IN  IF fi.err # nil THEN [err |-> fi.err, files |-> <<>>]
             ELSE Call2(getFilesLoop, Tail(paths), Append(acc, fi.info))

\* command.getFiles(): [err, files]
getFiles(cmd) == Call2(getFilesLoop, Split(cmd.file, ";"), <<>>)

\* a getUpdatePatch whose test of the mapping is inverted
patchOpInverted(mappings, name) ==
    IF name \in DOMAIN mappings THEN jsonPatchAddOp ELSE jsonPatchReplaceOp

\* the op getUpdatePatch gives the entry of a file name
patchOp(mappings, name) ==
    IF name \in DOMAIN mappings THEN jsonPatchReplaceOp ELSE jsonPatchAddOp

\* a getUpdatePatch whose loop puts each entry in front of the earlier ones
patchEntriesPrepended(mappings, files) ==
    [i \in 1..Len(files) |->
        [Op |-> patchOp(mappings, files[Len(files) + 1 - i].Name),
         Path |-> jsonPatchBasePath \o files[Len(files) + 1 - i].Name,
         Value |-> files[Len(files) + 1 - i].ID]]

\* the []jsonPatch that the loop of getUpdatePatch builds
patchEntries(mappings, files) ==
    [i \in 1..Len(files) |->
        [Op |-> patchOp(mappings, files[i].Name),
         Path |-> jsonPatchBasePath \o files[i].Name,
         Value |-> files[i].ID]]

\* a getUpdatePatch that returns the marshalled JSON in both variants
getUpdatePatchRaw(v, mappings, files) ==
    [err |-> nil,
     patch |-> [type |-> "string", json |-> Call(Marshal, patchEntries(mappings, files))]]

\* getUpdatePatch(fileIdx, files): [err, patch]. The otp variant returns the
\* decoded jsonpatch.Patch, the sig variant the marshalled JSON as a string.
getUpdatePatch(v, mappings, files) ==
    LET patchBytes == Call(Marshal, patchEntries(mappings, files))
    IN  IF v = "otp"
        THEN LET d == Call(DecodePatch, patchBytes)
             IN  IF d.err # nil THEN [err |-> d.err, patch |-> nil]
                 ELSE [err |-> nil,
                       patch |-> [type |-> "jsonpatch.Patch", ops |-> d.patch]]
        ELSE [err |-> nil, patch |-> [type |-> "string", json |-> patchBytes]]

\* a getUniqueSuffix that cuts at the first ':' (strings.Index)
getUniqueSuffixFirstColon(id) ==
    LET p == Index(id, ":")
    IN  IF p = -1 THEN [err |-> errNoUniqueSuffix, suffix |-> <<>>]
        ELSE [err |-> nil, suffix |-> SliceFrom(id, p + 1)]

\* getUniqueSuffix(id): [err, suffix]
getUniqueSuffix(id) ==
    LET p == LastIndex(id, ":")
    IN  IF p = -1 THEN [err |-> errNoUniqueSuffix, suffix |-> <<>>]
        ELSE [err |-> nil, suffix |-> SliceFrom(id, p + 1)]

\* patch.NewJSONPatch(patches) of sidetree-core-go: decodes and validates the
\* JSON patch and wraps it: [err, patch]
NewJSONPatch(patchStr) ==
    LET d == Call(DecodePatch, patchStr.json)
    IN  IF d.err # nil THEN [err |-> d.err, patch |-> nil]
        ELSE [err |-> nil, patch |-> [type |-> "patch.Patch", ops |-> d.patch]]

\* a validateSigningKey that only asks for some key
validateSigningKeySome(cmd) ==
    IF cmd.fileIndexSigningKeyFile = "" /\ cmd.fileIndexSigningKeyString = ""
    THEN errSigningKeyOrFileRequired
    ELSE nil

\* command.validateSigningKey()
validateSigningKey(cmd) ==
    IF cmd.fileIndexSigningKeyFile = "" /\ cmd.fileIndexSigningKeyString = ""
    THEN errSigningKeyOrFileRequired
    ELSE IF cmd.fileIndexSigningKeyFile # "" /\ cmd.fileIndexSigningKeyString # ""
         THEN errOnlyOneOfSigningKeyOrFileRequired
    ELSE nil

\* command.signingPrivateKey() / updateKeySigner(): [err, signer]. What the
\* key file or the PEM text holds is the environment's: key is one of
\* "ok", "unreadable", "no PEM", "not EC".
updateKeySigner(cmd, key) ==
    IF cmd.fileIndexSigningKeyFile # "" /\ key = "unreadable"
    THEN [err |-> errReadFile, signer |-> nil]
    ELSE IF key = "no PEM" THEN [err |-> errPrivateKeyNotFoundInPEM, signer |-> nil]
    ELSE IF key = "not EC" THEN [err |-> errParseECPrivateKey, signer |-> nil]
    ELSE [err |-> nil,
          signer |-> [alg |-> "ES256",
                      key |-> IF cmd.fileIndexSigningKeyFile # ""
                              THEN cmd.fileIndexSigningKeyFile
                              ELSE cmd.fileIndexSigningKeyString]]

\* a getUpdateRequest that goes on with an empty unique suffix when the index
\* URL has none
getUpdateRequestAnySuffix(v, cmd, patch, key) ==
    LET us == getUniqueSuffix(cmd.fileIndexURL)
    IN  IF v = "otp"
        THEN [err |-> nil,
              req |-> [DidUniqueSuffix |-> us.suffix,
                       UpdateOTP |-> EncodeToString(cmd.fileIndexUpdateOTP),
                       NextUpdateOTP |-> EncodeToString(cmd.fileIndexNextUpdateOTP),
                       Patch |-> patch,
                       MultihashCode |-> sha2_256]]
        ELSE LET up == NewJSONPatch(patch)
                 sg == updateKeySigner(cmd, key)
             IN  IF up.err # nil THEN [err |-> up.err, req |-> nil]
                 ELSE IF sg.err # nil THEN [err |-> sg.err, req |-> nil]
                 ELSE [err |-> nil,
                       req |-> [DidUniqueSuffix |-> us.suffix,
                                UpdateRevealValue |-> cmd.fileIndexUpdateOTP,
                                NextUpdateRevealValue |-> cmd.fileIndexNextUpdateOTP,
                                Patch |-> up.patch,
                                MultihashCode |-> sha2_256,
                                Signer |-> sg.signer]]

\* command.getUpdateRequest(patch): [err, req]
getUpdateRequest(v, cmd, patch, key) ==
    LET us == getUniqueSuffix(cmd.fileIndexURL)
    IN  IF us.err # nil THEN [err |-> us.err, req |-> nil]
        ELSE IF v = "otp"
        THEN [err |-> nil,
              req |-> [DidUniqueSuffix |-> us.suffix,
                       UpdateOTP |-> EncodeToString(cmd.fileIndexUpdateOTP),
                       NextUpdateOTP |-> EncodeToString(cmd.fileIndexNextUpdateOTP),
                       Patch |-> patch,
                       MultihashCode |-> sha2_256]]
        ELSE LET up == NewJSONPatch(patch)
                 sg == updateKeySigner(cmd, key)
             IN  IF up.err # nil THEN [err |-> up.err, req |-> nil]
                 ELSE IF sg.err # nil THEN [err |-> sg.err, req |-> nil]
                 ELSE [err |-> nil,
                       req |-> [DidUniqueSuffix |-> us.suffix,
                                UpdateRevealValue |-> cmd.fileIndexUpdateOTP,
                                NextUpdateRevealValue |-> cmd.fileIndexNextUpdateOTP,
                                Patch |-> up.patch,
                                MultihashCode |-> sha2_256,
                                Signer |-> sg.signer]]

\* a validateAndProcessArgs that cuts the index URL at its first '/'
\* (strings.Index)
validateAndProcessArgsFirstSlash(v, cmd) ==
    LET u == urlParse(cmd.url)
        withPath == [cmd EXCEPT !.basePath = u.Path]
        pos == Index(cmd.fileIndexURL, "/")
    IN  IF cmd.url = <<>> THEN [err |-> errURLRequired, cmd |-> cmd]
        ELSE IF u.err # nil THEN [err |-> errInvalidURL, cmd |-> cmd]
        ELSE IF u.Path = <<>> THEN [err |-> errNoBasePath, cmd |-> cmd]
        ELSE IF cmd.file = <<>> THEN [err |-> errFilesRequired, cmd |-> withPath]
        ELSE IF cmd.fileIndexURL = <<>>
             THEN [err |-> errFileIndexURLRequired, cmd |-> withPath]
        ELSE IF pos = -1 THEN [err |-> errInvalidFileIndexURL, cmd |-> withPath]
        ELSE IF cmd.fileIndexUpdateOTP = ""
             THEN [err |-> errFileIndexUpdateOTPRequired, cmd |-> withPath]
        ELSE IF cmd.fileIndexNextUpdateOTP = ""
             THEN [err |-> errFileIndexNextUpdateOTPRequired, cmd |-> withPath]
        ELSE IF v = "sig" /\ validateSigningKey(cmd) # nil
             THEN [err |-> validateSigningKey(cmd), cmd |-> withPath]
        ELSE [err |-> nil,
              cmd |-> [withPath EXCEPT
                         !.fileIndexBaseURL = SliceTo(cmd.fileIndexURL, pos)]]

\* command.validateAndProcessArgs(): [err, cmd], cmd the command afterwards
validateAndProcessArgs(v, cmd) ==
    LET u == urlParse(cmd.url)
        withPath == [cmd EXCEPT !.basePath = u.Path]
        pos == LastIndex(cmd.fileIndexURL, "/")
    IN  IF cmd.url = <<>> THEN [err |-> errURLRequired, cmd |-> cmd]
        ELSE IF u.err # nil THEN [err |-> errInvalidURL, cmd |-> cmd]
        ELSE IF u.Path = <<>> THEN [err |-> errNoBasePath, cmd |-> cmd]
        ELSE IF cmd.file = <<>> THEN [err |-> errFilesRequired, cmd |-> withPath]
        ELSE IF cmd.fileIndexURL = <<>>
             THEN [err |-> errFileIndexURLRequired, cmd |-> withPath]
        ELSE IF pos = -1 THEN [err |-> errInvalidFileIndexURL, cmd |-> withPath]
        ELSE IF cmd.fileIndexUpdateOTP = ""
             THEN [err |-> errFileIndexUpdateOTPRequired, cmd |-> withPath]
        ELSE IF cmd.fileIndexNextUpdateOTP = ""
             THEN [err |-> errFileIndexNextUpdateOTPRequired, cmd |-> withPath]
        ELSE IF v = "sig" /\ validateSigningKey(cmd) # nil
             THEN [err |-> validateSigningKey(cmd), cmd |-> withPath]
        ELSE [err |-> nil,
              cmd |-> [withPath EXCEPT
                         !.fileIndexBaseURL = SliceTo(cmd.fileIndexURL, pos)]]

\* a confirmUpload that takes every response starting with y or Y as a yes
confirmedByPrefix(response) ==
    Len(response) > 0 /\ ToLower(response)[1] = "y"

\* confirmUpload: whether the response to the prompt confirms the upload
confirmed(response) == ToLower(response) = <<"y">>

\* files.String() / the JSON the command prints: Name, ID and ContentType of
\* each file, in the order of the list
filesString(files) ==
    [i \in 1..Len(files) |->
        [Name |-> files[i].Name, ID |-> files[i].ID,
         ContentType |-> files[i].ContentType]]

\* a getFileIndex without the validation of the base path
getFileIndexAnyBasePath(cmd, resp) ==
    IF resp.err # nil THEN [err |-> resp.err, fileIdx |-> resp.Payload.doc]
    ELSE IF resp.StatusCode # StatusOK
         THEN IF resp.StatusCode = StatusNotFound
              THEN [err |-> errIndexNotFound, fileIdx |-> resp.Payload.doc]
              ELSE [err |-> errIndexStatus, fileIdx |-> resp.Payload.doc]
    ELSE IF ~resp.Payload.wellFormed
         THEN [err |-> errUnmarshal, fileIdx |-> resp.Payload.doc]
    ELSE [err |-> nil, fileIdx |-> resp.Payload.doc]

\* command.getFileIndex(), given the response of client.Get: [err, fileIdx]
getFileIndex(cmd, resp) ==
    IF resp.err # nil THEN [err |-> resp.err, fileIdx |-> resp.Payload.doc]
    ELSE IF resp.StatusCode # StatusOK
         THEN IF resp.StatusCode = StatusNotFound
              THEN [err |-> errIndexNotFound, fileIdx |-> resp.Payload.doc]
              ELSE [err |-> errIndexStatus, fileIdx |-> resp.Payload.doc]
    ELSE IF ~resp.Payload.wellFormed
         THEN [err |-> errUnmarshal, fileIdx |-> resp.Payload.doc]
    ELSE IF resp.Payload.doc.BasePath # cmd.basePath
         THEN [err |-> errBasePathMismatch, fileIdx |-> resp.Payload.doc]
    ELSE [err |-> nil, fileIdx |-> resp.Payload.doc]

\* an upload that does not look at the status code of the response
uploadAnyStatus(resp) ==
    IF resp.err # nil THEN [err |-> resp.err, fileID |-> ""]
    ELSE IF ~resp.Payload.wellFormed THEN [err |-> nil, fileID |-> ""]
    ELSE [err |-> nil, fileID |-> resp.Payload.id]

\* command.upload(), given the response of client.Post: [err, fileID]
upload(resp) ==
    IF resp.err # nil THEN [err |-> resp.err, fileID |-> ""]
    ELSE IF resp.StatusCode # StatusOK THEN [err |-> errUploadStatus, fileID |-> ""]
    ELSE IF ~resp.Payload.wellFormed THEN [err |-> errUnmarshal, fileID |-> ""]
    ELSE [err |-> nil, fileID |-> resp.Payload.id]

(***************************************************************************)
(* The state of the command and of its environment.                        *)
(***************************************************************************)
Terminal == {"Done", "Failed", "Aborted"}

EmptyMap == [n \in {} |-> ""]

NoIndex == [BasePath |-> <<>>, Mappings |-> EmptyMap]

\* the sequences over S of length lo..hi
SeqsOf(S, lo, hi) == UNION {[1..n -> S] : n \in lo..hi}

\* the values --files takes: up to MaxFiles paths joined by ";"
FilesAll == {<<>>} \cup {Join(ps, ";") : ps \in SeqsOf(Paths, 1, MaxFiles)}
FilesFew == {<<>>, PathA}

\* the flags with which the checks of validateAndProcessArgs all pass
FlagsValid(v, cmd) ==
    /\ cmd.url = UrlContent
    /\ cmd.fileIndexURL \in {IdxUrlNoColon, IdxUrlFull}
    /\ cmd.fileIndexUpdateOTP # "" /\ cmd.fileIndexNextUpdateOTP # ""
    /\ v = "sig" => (cmd.fileIndexSigningKeyFile = "") # (cmd.fileIndexSigningKeyString = "")

\* the commands after the flags are parsed: every combination of the flags
\* with one of two --files values, and every --files value with valid flags
Commands(v) ==
    {cmd \in [file : FilesAll, url : Urls, basePath : {<<>>},
              fileIndexURL : IdxUrls, fileIndexBaseURL : {<<>>},
              fileIndexUpdateOTP : {"", "pwd1"},
              fileIndexNextUpdateOTP : {"", "pwd2"},
              fileIndexSigningKeyFile : IF v = "sig" THEN {"", "signing.key"} ELSE {""},
              fileIndexSigningKeyString : IF v = "sig" THEN {"", "PEM"} ELSE {""},
              noPrompt : BOOLEAN] :
        cmd.file \in FilesFew \/ FlagsValid(v, cmd)}

\* the index documents the server may hold at the start
ServerDocs ==
    [basePath : {BaseContent, BaseOther},
     mappings : {EmptyMap, [n \in {NameA} |-> "old"]},
     writes : {0}]

\* the responses of client.Get(fileIndexURL) when the server holds doc
GetResponses(doc) ==
    LET payload(wf) == [wellFormed |-> wf,
                        doc |-> IF wf THEN [BasePath |-> doc.basePath,
                                            Mappings |-> doc.mappings]
                                ELSE NoIndex]
    IN  {[err |-> errTransport, StatusCode |-> 0, Payload |-> payload(FALSE)],
         [err |-> nil, StatusCode |-> StatusNotFound, Payload |-> payload(FALSE)],
         [err |-> nil, StatusCode |-> StatusInternalServerError, Payload |-> payload(FALSE)],
         [err |-> nil, StatusCode |-> StatusOK, Payload |-> payload(FALSE)],
         [err |-> nil, StatusCode |-> StatusOK, Payload |-> payload(TRUE)]}

\* the responses of client.Post(url, uploadFile)
UploadResponses ==
    {[err |-> errTransport, StatusCode |-> 0, Payload |-> [wellFormed |-> FALSE, id |-> ""]],
     [err |-> nil, StatusCode |-> StatusInternalServerError,
      Payload |-> [wellFormed |-> FALSE, id |-> ""]],
     [err |-> nil, StatusCode |-> StatusOK, Payload |-> [wellFormed |-> FALSE, id |-> ""]]}
    \cup {[err |-> nil, StatusCode |-> StatusOK, Payload |-> [wellFormed |-> TRUE, id |-> id]] :
            id \in IDs}

\* the responses of client.Post(fileIndexBaseURL, req)
UpdateResponses ==
    {[err |-> errTransport, StatusCode |-> 0],
     [err |-> nil, StatusCode |-> StatusInternalServerError],
     [err |-> nil, StatusCode |-> StatusOK]}

\* what the signing key file or PEM text turns out to hold
KeyStates == {"ok", "unreadable", "no PEM", "not EC"}

Init ==
    /\ variant \in {"otp", "sig"}
    /\ c \in Commands(variant)
    /\ pc = "PreRun"
    /\ err = nil
    /\ fileIdx = NoIndex
    /\ f = <<>>
    /\ net = <<>>
    /\ out = <<>>
    /\ upd = [built |-> FALSE]
    /\ server \in ServerDocs
    /\ dcas = <<>>
    /\ uploaded = 0
    /\ call = [fn |-> "none"]

(***************************************************************************)
(* The steps of the command: PreRunE, then run().                          *)
(***************************************************************************)

\* an error that is recorded while the step is left to be taken again
FailAndRetry(e) == pc' = pc /\ err' = e

\* the command returns e: the run is over, with an error
Fail(e) == pc' = "Failed" /\ err' = e

\* PreRunE: validateAndProcessArgs; RunE (run) is called only if it passes
PreRunE ==
    /\ pc = "PreRun"
    /\ \E r \in {validateAndProcessArgs(variant, c)} :
           /\ c' = r.cmd
           /\ IF r.err # nil THEN Fail(r.err) ELSE pc' = "Init" /\ err' = nil
    /\ UNCHANGED <<variant, fileIdx, f, net, out, upd, server, dcas, uploaded, call>>

\* run: fileIdx, err := c.getFileIndex()
GetFileIndex ==
    /\ pc = "Init"
    /\ \E resp \in GetResponses(server) :
          LET r == getFileIndex(c, resp)
          IN  /\ net' = Append(net, [method |-> "GET", url |-> c.fileIndexURL,
                                     kind |-> "index", body |-> nil, resp |-> resp])
              /\ IF r.err # nil
                 THEN Fail(r.err) /\ UNCHANGED fileIdx
                 ELSE pc' = "IndexFetched" /\ fileIdx' = r.fileIdx /\ UNCHANGED err
    /\ UNCHANGED <<variant, c, f, out, upd, server, dcas, uploaded, call>>

\* run: f, err := c.getFiles()
GetFiles ==
    /\ pc = "IndexFetched"
    /\ \E r \in {getFiles(c)} :
           IF r.err # nil
           THEN Fail(r.err) /\ UNCHANGED f
           ELSE pc' = "FilesLoaded" /\ f' = r.files /\ UNCHANGED err
    /\ UNCHANGED <<variant, c, fileIdx, net, out, upd, server, dcas, uploaded, call>>

\* what a write to the output stream of the command can come to: all of the
\* text written, or an error with none of it or only a part of it written
WriteOutcomes == {"written", "nothing", "part"}

\* c.Fprint(text), c.Fprintln(text) on the output o: [err, out]
Fprint(o, entry, w) ==
    IF w = "written" THEN [err |-> nil, out |-> Append(o, entry)]
    ELSE IF w = "nothing" THEN [err |-> errWrite, out |-> o]
    ELSE [err |-> errWrite, out |-> Append(o, [kind |-> "truncated", of |-> entry.kind])]

\* the summary has been printed and c.Prompt() has not returned yet
PromptPending ==
    /\ pc = "FilesLoaded"
    /\ out # <<>>
    /\ out[Len(out)].kind = "prompt"

\* run: if !c.noPrompt { confirmed, e := c.confirmUpload(c.url, f) ... }, up
\* to the call of c.Prompt(): the summary is printed, and run returns the
\* error of c.Fprintln if there is one
ConfirmUpload ==
    /\ pc = "FilesLoaded"
    /\ ~c.noPrompt
    /\ ~PromptPending
    /\ \E w \in WriteOutcomes :
          \E r \in {Fprint(out, [kind |-> "prompt",
                                 text |-> [url |-> c.url, files |-> filesString(f),
                                           msg |-> msgContinueOrAbort]], w)} :
              /\ out' = r.out
              /\ IF r.err # nil THEN Fail(r.err) ELSE UNCHANGED <<pc, err>>
    /\ UNCHANGED <<variant, c, fileIdx, f, net, upd, server, dcas, uploaded, call>>

\* c.Prompt() returns the response of the user: confirmUpload returns, and
\* run goes on to the uploads or returns c.Fprintln(msgAborted)
Prompt ==
    /\ PromptPending
    /\ \E response \in Responses, w \in WriteOutcomes :
          LET answered == Append(out, [kind |-> "response", text |-> response])
          IN  IF confirmed(response)
              THEN /\ w = "written"
                   /\ pc' = "Confirmed"
                   /\ out' = answered
                   /\ UNCHANGED err
              ELSE \E r \in {Fprint(answered, [kind |-> "notice", text |-> msgAborted], w)} :
                      /\ out' = r.out
                      /\ IF r.err # nil THEN Fail(r.err)
                         ELSE pc' = "Aborted" /\ UNCHANGED err
    /\ UNCHANGED <<variant, c, fileIdx, f, net, upd, server, dcas, uploaded, call>>

\* an assignment to a copy of the element: the list keeps its IDs
setIDOfCopy(files, i, id) == files

\* run: file.ID = id, file the pointer to the i-th element of f
setID(files, i, id) == [files EXCEPT ![i].ID = id]

\* the upload loop of run may (still) run
Uploading ==
    /\ pc = "Confirmed" \/ (pc = "FilesLoaded" /\ c.noPrompt)
    /\ uploaded < Len(f)

\* run: one iteration of  for _, file := range f { id, e := c.upload(...) }
Upload ==
    /\ Uploading
    /\ \E resp \in UploadResponses :
          LET file == f[uploaded + 1]
              body == [ContentType |-> file.ContentType, Content |-> file.Content]
              r == upload(resp)
          IN  /\ net' = Append(net, [method |-> "POST", url |-> c.url,
                                     kind |-> "upload", body |-> body, resp |-> resp])
              /\ dcas' = IF resp.err = nil /\ resp.StatusCode = StatusOK
                         THEN Append(dcas, body) ELSE dcas
              /\ IF r.err # nil
                 THEN Fail(r.err) /\ UNCHANGED <<f, uploaded>>
                 ELSE /\ f' = setID(f, uploaded + 1, r.fileID)
                      /\ uploaded' = uploaded + 1
                      /\ pc' = IF uploaded + 1 = Len(f) THEN "Uploaded" ELSE pc
                      /\ UNCHANGED err
    /\ UNCHANGED <<variant, c, fileIdx, out, upd, server, call>>

\* run: err = c.updateIndexFile(fileIdx, f)
UpdateIndexFile ==
    /\ pc = "Uploaded"
    /\ \E key \in KeyStates, resp \in UpdateResponses,
          p \in {getUpdatePatch(variant, fileIdx.Mappings, f)} :
          \E r \in {IF p.err # nil THEN [err |-> p.err, req |-> nil]
                    ELSE getUpdateRequest(variant, c, p.patch, key)} :
              IF p.err # nil
              THEN Fail(p.err) /\ UNCHANGED <<net, upd>>
              ELSE IF r.err # nil
              THEN /\ Fail(r.err)
                   /\ upd' = [built |-> FALSE, patch |-> p.patch]
                   /\ UNCHANGED net
              ELSE /\ upd' = [built |-> TRUE, patch |-> p.patch, req |-> r.req]
                   /\ net' = Append(net, [method |-> "POST", url |-> c.fileIndexBaseURL,
                                          kind |-> "update", body |-> r.req,
                                          resp |-> resp])
                   /\ IF resp.err # nil THEN Fail(resp.err)
                      ELSE IF resp.StatusCode # StatusOK THEN Fail(errUpdateStatus)
                      ELSE pc' = "IndexUpdated" /\ UNCHANGED err
    /\ UNCHANGED <<variant, c, fileIdx, f, out, server, dcas, uploaded, call>>

\* run: return c.Fprint(f.String())
PrintResult ==
    /\ pc = "IndexUpdated"
    /\ \E w \in WriteOutcomes :
          \E r \in {Fprint(out, [kind |-> "result", text |-> filesString(f)], w)} :
              /\ out' = r.out
              /\ IF r.err # nil THEN Fail(r.err) ELSE pc' = "Done" /\ UNCHANGED err
    /\ UNCHANGED <<variant, c, fileIdx, f, net, upd, server, dcas, uploaded, call>>

\* another client's write that also reaches the index this run holds, as if
\* the run read the server's mapping again when it builds the patch
OtherWriterSeenByRun ==
    /\ pc \notin Terminal \cup {"PreRun"}
    /\ server.writes < MaxWrites
    /\ \E n \in {NameA, NameB} \ DOMAIN server.mappings :
          /\ server' = [server EXCEPT
                          !.mappings = [m \in DOMAIN @ \cup {n} |->
                                           IF m = n THEN "W" ELSE @[m]],
                          !.writes = @ + 1]
          /\ fileIdx' = [fileIdx EXCEPT !.Mappings = server'.mappings]
    /\ UNCHANGED <<variant, c, pc, err, f, net, out, upd, dcas, uploaded, call>>

\* another client adds a mapping to the index document on the server
OtherWriter ==
    /\ pc \notin Terminal \cup {"PreRun"}
    /\ server.writes < MaxWrites
    /\ \E n \in {NameA, NameB} \ DOMAIN server.mappings :
          server' = [server EXCEPT
                       !.mappings = [m \in DOMAIN @ \cup {n} |->
                                        IF m = n THEN "W" ELSE @[m]],
                       !.writes = @ + 1]
    /\ UNCHANGED <<variant, c, pc, err, fileIdx, f, net, out, upd, dcas, uploaded, call>>

RunStep ==
    \/ PreRunE
    \/ GetFileIndex
    \/ GetFiles
    \/ ConfirmUpload
    \/ Prompt
    \/ Upload
    \/ UpdateIndexFile
    \/ PrintResult

Next == RunStep \/ OtherWriter

Spec == Init /\ [][Next]_vars

\* the command runs to its end: every call it makes returns, c.Prompt()
\* included (the user answers the prompt)
FairSpec == Spec /\ WF_vars(RunStep)

(***************************************************************************)
(* Specifications of single functions: the arguments are drawn from        *)
(* bounded sets, the one action calls the function; the command is idle.   *)
(***************************************************************************)
IdleCommand ==
    [file |-> <<>>, url |-> <<>>, basePath |-> <<>>, fileIndexURL |-> <<>>,
     fileIndexBaseURL |-> <<>>, fileIndexUpdateOTP |-> "",
     fileIndexNextUpdateOTP |-> "", fileIndexSigningKeyFile |-> "",
     fileIndexSigningKeyString |-> "", noPrompt |-> FALSE]

Idle ==
    /\ variant = "otp"
    /\ c = IdleCommand
    /\ pc = "Idle"
    /\ err = nil
    /\ fileIdx = NoIndex
    /\ f = <<>>
    /\ net = <<>>
    /\ out = <<>>
    /\ upd = [built |-> FALSE]
    /\ server = [basePath |-> <<>>, mappings |-> EmptyMap, writes |-> 0]
    /\ dcas = <<>>
    /\ uploaded = 0

NameC == <<"c", ".", "p", "n", "g">>

\* the uploaded files handed to getUpdatePatch
PatchFiles ==
    [Name : {NameA, NameB, NameC}, Content : {"bytes"},
     ContentType : {"image/png"}, ID : IDs]

\* the index mappings handed to getUpdatePatch
PatchMappings == UNION {[S -> {"old"}] : S \in SUBSET {NameA, NameB}}

InitPatch ==
    /\ Idle
    /\ \E v \in {"otp", "sig"}, m \in PatchMappings,
          fs \in SeqsOf(PatchFiles, 0, MaxPatchFiles) :
          call = [fn |-> "getUpdatePatch", v |-> v, mappings |-> m, files |-> fs,
                  done |-> FALSE, ret |-> [err |-> nil, patch |-> [type |-> "none"]]]

CallGetUpdatePatch ==
    /\ call.fn = "getUpdatePatch"
    /\ ~call.done
    /\ call' = [call EXCEPT !.done = TRUE,
                            !.ret = getUpdatePatch(call.v, call.mappings, call.files)]
    /\ UNCHANGED runVars

SpecPatch == InitPatch /\ [][CallGetUpdatePatch]_vars

\* the ids handed to getUniqueSuffix
SuffixIds ==
    SeqsOf({":", "/", "a", "B"}, 0, MaxLen) \cup {IdxUrlFull, IdxUrlNoColon}

InitSuffix ==
    /\ Idle
    /\ \E id \in SuffixIds :
          call = [fn |-> "getUniqueSuffix", id |-> id, done |-> FALSE,
                  ret |-> [err |-> nil, suffix |-> <<>>]]

CallGetUniqueSuffix ==
    /\ call.fn = "getUniqueSuffix"
    /\ ~call.done
    /\ call' = [call EXCEPT !.done = TRUE, !.ret = getUniqueSuffix(call.id)]
    /\ UNCHANGED runVars

SpecSuffix == InitSuffix /\ [][CallGetUniqueSuffix]_vars

(***************************************************************************)
(* Properties.                                                             *)
(***************************************************************************)

\* the operations of a patch that getUpdatePatch returned, whichever its type
OpsOf(patch) ==
    IF patch.type = "string" THEN DecodePatch(patch.json).patch ELSE patch.ops

\* C1: for every index mapping and every list of uploaded files, in both
\* variants, the patch getUpdatePatch returns has for each file an entry with
\* path "/fileIndex/mappings/" + file name, value the file's ID, and op
\* "replace" when the name is a key of the mapping, "add" when it is not.
C1_PatchEntryPerFile ==
    (call.fn = "getUpdatePatch" /\ call.done) =>
        /\ call.ret.err = nil
        /\ call.ret.patch.type = (IF call.v = "otp" THEN "jsonpatch.Patch" ELSE "string")
        /\ \A i \in 1..Len(call.files) :
              \E j \in 1..Len(OpsOf(call.ret.patch)) :
                 LET e == OpsOf(call.ret.patch)[j]
                     file == call.files[i]
                 IN  /\ e.path = <<"/", "f", "i", "l", "e", "I", "n", "d", "e", "x", "/",
                                   "m", "a", "p", "p", "i", "n", "g", "s", "/">> \o file.Name
                     /\ e.value = file.ID
                     /\ (\E n \in DOMAIN call.mappings : n = file.Name) => e.op = "replace"
                     /\ (\A n \in DOMAIN call.mappings : n # file.Name) => e.op = "add"

\* C1 happens: a patch of the sig variant with a "replace" for a mapped name
\* and an "add" for an unmapped one
C1_Witness ==
    /\ call.fn = "getUpdatePatch" /\ call.done /\ call.v = "sig"
    /\ Len(call.files) = 2
    /\ call.files[1].Name \in DOMAIN call.mappings
    /\ call.files[2].Name \notin DOMAIN call.mappings
    /\ OpsOf(call.ret.patch)[1].op = "replace"
    /\ OpsOf(call.ret.patch)[2].op = "add"

\* C7: for an id that contains ':' getUniqueSuffix returns, without error,
\* what follows the last ':' of the id; for an id without ':' it returns an
\* error and no suffix. "http://h/file/file:idx:ABC123" gives "ABC123".
C7_UniqueSuffix ==
    (call.fn = "getUniqueSuffix" /\ call.done) =>
        LET id == call.id
            sfx == call.ret.suffix
        IN  /\ (\E i \in 1..Len(id) : id[i] = ":") =>
                  /\ call.ret.err = nil
                  /\ Len(sfx) < Len(id)
                  /\ id[Len(id) - Len(sfx)] = ":"
                  /\ \A k \in 1..Len(sfx) :
                        sfx[k] = id[Len(id) - Len(sfx) + k] /\ sfx[k] # ":"
            /\ (\A i \in 1..Len(id) : id[i] # ":") =>
                  call.ret.err # nil /\ sfx = <<>>
            /\ id = IdxUrlFull => sfx = SuffixABC

\* C7 happens: the suffix of an id with two ':' has been extracted
C7_Witness ==
    /\ call.fn = "getUniqueSuffix" /\ call.done
    /\ call.id = IdxUrlFull
    /\ call.ret.err = nil
    /\ call.ret.suffix = <<"A", "B", "C", "1", "2", "3">>

\* the requests sent so far that are POSTs
Posts == {i \in 1..Len(net) : net[i].method = "POST"}

\* the file name of a path: what follows its last '/'
NameOf(path) ==
    IF \E i \in 1..Len(path) : path[i] = "/"
    THEN SliceFrom(path, LastIndex(path, "/") + 1)
    ELSE path

\* the paths of --files
PathsOf(cmd) == Split(cmd.file, ";")

\* the paths of --files whose file name has no '.'
NoExtension(cmd) ==
    {i \in 1..Len(PathsOf(cmd)) : \A k \in 1..Len(NameOf(PathsOf(cmd)[i])) :
                                      NameOf(PathsOf(cmd)[i])[k] # "."}

\* the index GET has been sent and its response was accepted
FetchSucceeded ==
    /\ Len(net) >= 1
    /\ net[1].kind = "index"
    /\ net[1].resp.err = nil
    /\ net[1].resp.StatusCode = 200
    /\ net[1].resp.Payload.wellFormed
    /\ net[1].resp.Payload.doc.BasePath = c.basePath

\* C2 as stated: when the content-type error for a missing extension is
\* raised, no network call has been made (no GET of the index, no POST).
C2_NoNetworkBeforeContentTypeError ==
    (pc = "Failed" /\ err = errNoFileExtension) => net = <<>>

\* C2, amended: when a path of --files has a file name without extension the
\* run never gets past loading the files and never sends a POST; the
\* content-type error is raised after the one GET of the index document was
\* sent and answered successfully, and it is the error of the run whenever
\* the fetch succeeded and every path before the first one without extension
\* loads.
C2_ContentTypeErrorAfterFetchBeforeUpload ==
    NoExtension(c) # {} =>
        /\ pc \in {"PreRun", "Init", "IndexFetched", "Failed"}
        /\ Posts = {}
        /\ (pc = "Failed" /\ err = errNoFileExtension) =>
              Len(net) = 1 /\ net[1].method = "GET" /\ FetchSucceeded
        /\ (/\ pc = "Failed"
            /\ FetchSucceeded
            /\ \A i \in 1..Len(PathsOf(c)) :
                  (\A j \in NoExtension(c) : i < j) =>
                      PathsOf(c)[i] \in {PathA, PathB}) =>
              err = errNoFileExtension

\* C2 happens: the run failed on README, the second path, after the fetch
C2_Witness ==
    /\ pc = "Failed" /\ err = errNoFileExtension
    /\ NoExtension(c) = {2}
    /\ Len(net) = 1 /\ net[1].method = "GET"

\* C3: if the index fetch fails, by a 404 (reported as not found), by another
\* non-200 status or by a document whose basePath is not the path of the
\* upload URL, the run fails and no POST (upload or update) is ever sent.
C3_NoUploadAfterFailedFetch ==
    (/\ Len(net) >= 1
     /\ net[1].resp.err = nil
     /\ \/ net[1].resp.StatusCode # 200
        \/ /\ net[1].resp.Payload.wellFormed
           /\ net[1].resp.Payload.doc.BasePath # urlParse(c.url).Path) =>
        /\ net[1].kind = "index"
        /\ pc = "Failed"
        /\ err # nil
        /\ net[1].resp.StatusCode = 404 => err = errIndexNotFound
        /\ Len(net) = 1
        /\ Posts = {}
        /\ dcas = <<>>

\* C3 happens: the fetched document has another base path than the upload URL
C3_Witness ==
    /\ pc = "Failed" /\ err = errBasePathMismatch
    /\ Len(net) = 1
    /\ net[1].resp.StatusCode = 200
    /\ net[1].resp.Payload.doc.BasePath # c.basePath

\* the response to an upload is a transport error or a status other than 200
UploadFailed(resp) == resp.err # nil \/ resp.StatusCode # 200

\* C4: the files are uploaded one at a time in the order of --files; when the
\* upload of the k-th file fails (transport error or non-200 response), that
\* request is the last one of the run (no later upload, no update POST), the
\* run has failed with the error of that upload, and the k-1 files uploaded
\* before are still in DCAS.
C4_UploadFailureAborts ==
    /\ \A i \in 1..Len(net) :
          net[i].kind = "upload" =>
             /\ i >= 2
             /\ i - 1 <= Len(f)
             /\ net[i].body.Content = f[i - 1].Content
             /\ net[i].body.ContentType = f[i - 1].ContentType
             /\ f[i - 1].Name = NameOf(PathsOf(c)[i - 1])
             /\ \A j \in 2..(i - 1) : net[j].kind = "upload" /\ ~UploadFailed(net[j].resp)
    /\ \A i \in 1..Len(net) :
          (net[i].kind = "upload" /\ UploadFailed(net[i].resp)) =>
             /\ i = Len(net)
             /\ pc = "Failed"
             /\ err = (IF net[i].resp.err # nil THEN net[i].resp.err ELSE errUploadStatus)
             /\ uploaded = i - 2
             /\ Len(dcas) = i - 2
             /\ \A j \in 1..(i - 2) :
                   dcas[j] = [ContentType |-> f[j].ContentType, Content |-> f[j].Content]

\* C4 happens: the upload of the second file failed after the first succeeded
C4_Witness ==
    /\ pc = "Failed"
    /\ Len(f) = 2
    /\ Len(net) = 3
    /\ net[3].kind = "upload" /\ net[3].resp.StatusCode = 500
    /\ Len(dcas) = 1

\* the errors each step of the command can end with
StepErrors(at) ==
    CASE at = "PreRun" ->
            {errURLRequired, errInvalidURL, errNoBasePath, errFilesRequired,
             errFileIndexURLRequired, errInvalidFileIndexURL,
             errFileIndexUpdateOTPRequired, errFileIndexNextUpdateOTPRequired,
             errSigningKeyOrFileRequired, errOnlyOneOfSigningKeyOrFileRequired}
      [] at = "Init" ->
            {errTransport, errIndexNotFound, errIndexStatus, errUnmarshal,
             errBasePathMismatch}
      [] at = "IndexFetched" -> {errNoFileExtension, errUnknownExtension, errReadFile}
      [] at = "FilesLoaded" -> {errWrite, errTransport, errUploadStatus, errUnmarshal}
      [] at = "Confirmed" -> {errTransport, errUploadStatus, errUnmarshal}
      [] at = "Uploaded" ->
            {errUnmarshal, errNoUniqueSuffix, errReadFile, errPrivateKeyNotFoundInPEM,
             errParseECPrivateKey, errTransport, errUpdateStatus}
      [] at = "IndexUpdated" -> {errWrite}
      [] OTHER -> {}

\* the moves of the orchestrator; PreRun is the validation before run()
Moves(noPrompt) ==
    {<<"PreRun", "Init">>, <<"Init", "IndexFetched">>, <<"IndexFetched", "FilesLoaded">>,
     <<"Uploaded", "IndexUpdated">>, <<"IndexUpdated", "Done">>}
    \cup (IF noPrompt
          THEN {<<"FilesLoaded", "Uploaded">>}
          ELSE {<<"FilesLoaded", "Confirmed">>, <<"FilesLoaded", "Aborted">>,
                <<"Confirmed", "Uploaded">>})
    \cup {<<at, "Failed">> : at \in {"PreRun", "Init", "IndexFetched", "FilesLoaded",
                                       "Uploaded", "IndexUpdated"}
                                    \cup (IF noPrompt THEN {} ELSE {"Confirmed"})}

\* C5, the steps: the state changes only along Init, IndexFetched,
\* FilesLoaded, (Confirmed), Uploaded, IndexUpdated, Done or to Failed or the
\* clean abort; a step that fails moves to Failed with an error of that step
\* and errors arise in no other way (with the prompt, FilesLoaded fails only
\* by a write to the output, Confirmed only by an upload); a step that stays
\* in its state is the upload of the next file or the printing of the
\* summary, which is printed once; a terminal state is never left.
C5_Steps ==
    [][/\ pc' # pc => <<pc, pc'>> \in Moves(c.noPrompt)
       /\ (pc' = "Failed" /\ pc # "Failed") => err' \in StepErrors(pc)
       /\ (pc' = "Failed" /\ pc = "FilesLoaded") => ((err' = errWrite) <=> ~c.noPrompt)
       /\ (pc' = pc /\ out' # out) => (~PromptPending /\ PromptPending' /\ net' = net)
       /\ err' # err => (pc' = "Failed" /\ pc # "Failed")
       /\ pc' \in {"Done", "Aborted"} => err' = nil
       /\ (pc' = pc /\ net' # net) => (uploaded' = uploaded + 1 /\ uploaded' < Len(f))
       /\ pc \in Terminal => (pc' = pc /\ net' = net /\ out' = out)]_vars

\* C5: every run moves through the orchestrator states in order, a failure of
\* a step ends the run in Failed with that step's error, no step is retried
\* or entered again, and every run reaches a terminal state (every call of
\* the command returning, the prompt being answered).
C5_OrderedRunTerminates == C5_Steps /\ <>(pc \in Terminal)

\* C5 happens: a run with the prompt enabled went through every state to Done
C5_Witness ==
    /\ pc = "Done" /\ ~c.noPrompt /\ Len(f) = 2
    /\ Len(net) = 4 /\ Len(out) = 3

\* the entries of the terminal that are prompts
Prompts == {i \in 1..Len(out) : out[i].kind = "prompt"}

\* the response to the prompt was given and is not "y" or "Y"
Declined ==
    /\ Len(out) >= 2
    /\ out[1].kind = "prompt" /\ out[2].kind = "response"
    /\ out[2].text \notin {<<"y">>, <<"Y">>}

\* C6 as stated: after any response other than "y" or "Y" the run has ended
\* without error, with the aborted notice, and has sent no POST.
C6_DeclineEndsWithoutError ==
    (~c.noPrompt /\ Declined) =>
        /\ pc = "Aborted" /\ err = nil
        /\ out[Len(out)] = [kind |-> "notice", text |-> "Operation aborted"]
        /\ Posts = {}

\* C6: without --noprompt the summary is shown, once, when the index is
\* fetched and the files are loaded, and the run goes on to upload exactly
\* when the response is "y" or "Y"; after any other response the run never
\* sends a POST and has ended: without error and with the aborted notice
\* printed, or, when the notice could not be written, with the error of that
\* write. With --noprompt there is no prompt and the run goes from the loaded
\* files to the uploads.
C6_ConfirmationGatesUploadOrWriteError ==
    /\ ~c.noPrompt =>
          /\ (Posts # {} \/ pc \in {"Confirmed", "Uploaded", "IndexUpdated", "Done"}) =>
                /\ Len(out) >= 2
                /\ out[1].kind = "prompt" /\ out[2].kind = "response"
                /\ out[2].text \in {<<"y">>, <<"Y">>}
          /\ out # <<>> =>
                /\ FetchSucceeded
                /\ Len(f) = Len(PathsOf(c))
                /\ out[1].kind \in {"prompt", "truncated"}
                /\ Prompts \subseteq {1}
          /\ (out # <<>> /\ out[1].kind = "truncated") =>
                pc = "Failed" /\ err = errWrite /\ Len(out) = 1 /\ Posts = {}
          /\ Prompts = {1} =>
                /\ out[1].text.url = c.url
                /\ out[1].text.msg = "Enter Y to continue or N to abort "
                /\ \A i \in 1..Len(f) : out[1].text.files[i].Name = NameOf(PathsOf(c)[i])
                /\ Len(out) = 1 => (pc = "FilesLoaded" /\ Posts = {})
                /\ Len(out) >= 2 =>
                      /\ out[2].kind = "response"
                      /\ out[2].text \in {<<"y">>, <<"Y">>} =>
                            pc \notin {"FilesLoaded", "Aborted"}
          /\ Declined =>
                /\ Posts = {}
                /\ \/ /\ pc = "Aborted" /\ err = nil
                      /\ Len(out) = 3
                      /\ out[3] = [kind |-> "notice", text |-> "Operation aborted"]
                   \/ /\ pc = "Failed" /\ err = errWrite
                      /\ \A i \in 1..Len(out) : out[i].kind # "notice"
          /\ pc = "Aborted" => Declined
    /\ c.noPrompt =>
          /\ Prompts = {}
          /\ pc \notin {"Confirmed", "Aborted"}
          /\ pc = "FilesLoaded" => Uploading

\* C6 happens: the response "yes" ended the run cleanly, without any POST
C6_Witness ==
    /\ pc = "Aborted" /\ err = nil
    /\ Len(out) = 3 /\ out[2].text = <<"y", "e", "s">>
    /\ Len(net) = 1

\* the flags that validateAndProcessArgs checks before the signing key pass
EarlierFlagsPass(cmd) ==
    /\ cmd.url = UrlContent
    /\ cmd.file # <<>>
    /\ cmd.fileIndexURL \in {IdxUrlNoColon, IdxUrlFull}
    /\ cmd.fileIndexUpdateOTP # "" /\ cmd.fileIndexNextUpdateOTP # ""

\* C8: in the sig variant, when neither or both of --signingkey and
\* --signingkeyfile are given, the validation fails and the command ends
\* without any GET or POST; the two cases get different errors (the errors of
\* validateSigningKey, reached when the flags checked before it pass).
C8_ExactlyOneSigningKey ==
    LET neither == c.fileIndexSigningKeyFile = "" /\ c.fileIndexSigningKeyString = ""
        both == c.fileIndexSigningKeyFile # "" /\ c.fileIndexSigningKeyString # ""
    IN  (variant = "sig" /\ (neither \/ both)) =>
           /\ pc \in {"PreRun", "Failed"}
           /\ net = <<>>
           /\ pc = "Failed" =>
                 /\ err # nil
                 /\ (EarlierFlagsPass(c) /\ neither) =>
                       err = "either signing key (--signingkey) or key file (--signingkeyfile) is required"
                 /\ (EarlierFlagsPass(c) /\ both) =>
                       err = "only one of signing key (--signingkey) or key file (--signingkeyfile) may be specified"

\* C8 happens: both keys were given with otherwise valid flags
C8_Witness ==
    /\ variant = "sig" /\ pc = "Failed"
    /\ c.fileIndexSigningKeyFile # "" /\ c.fileIndexSigningKeyString # ""
    /\ err = errOnlyOneOfSigningKeyOrFileRequired
    /\ net = <<>>

\* C9 as stated: the sig variant decodes the JSON patch into a typed patch
\* before the update request is built, the otp variant puts the raw JSON
\* string into the update request, without decoding it.
C9_OlderVariantPassesRawString ==
    upd.built =>
        /\ variant = "sig" => upd.req.Patch.type = "patch.Patch"
        /\ variant = "otp" => upd.req.Patch.type = "string"

\* C9, amended: both variants decode the marshalled JSON patch into a typed
\* patch before the update request is built, and the request never holds the
\* raw string. They differ in where: in the otp variant getUpdatePatch
\* decodes (jsonpatch.DecodePatch) and getUpdateRequest passes that patch on;
\* in the sig variant getUpdatePatch returns the JSON string and
\* getUpdateRequest decodes it (patch.NewJSONPatch).
C9_BothVariantsDecodeThePatch ==
    upd.built =>
        /\ upd.req.Patch.type # "string"
        /\ Len(upd.req.Patch.ops) = Len(f)
        /\ \A i \in 1..Len(f) :
              /\ upd.req.Patch.ops[i].path = jsonPatchBasePath \o f[i].Name
              /\ upd.req.Patch.ops[i].value = f[i].ID
        /\ variant = "otp" =>
              upd.patch.type = "jsonpatch.Patch" /\ upd.req.Patch = upd.patch
        /\ variant = "sig" =>
              /\ upd.patch.type = "string"
              /\ upd.req.Patch.type = "patch.Patch"
              /\ upd.req.Patch.ops = DecodePatch(upd.patch.json).patch

\* C9 happens: the otp variant built an update request with a decoded patch
C9_Witness ==
    /\ upd.built /\ variant = "otp"
    /\ upd.req.Patch.type = "jsonpatch.Patch"
    /\ Len(upd.req.Patch.ops) = 2

\* the entries of the terminal that are results
Results == {i \in 1..Len(out) : out[i].kind = "result"}

\* C10: the result is written only in runs whose update POST returned 200,
\* and then once, listing every file of --files once, in that order, with its
\* name, its content type and the ID the upload endpoint returned for it; a
\* failed or aborted run writes no result (a run that fails in writing the
\* result leaves at most a part of it).
C10_ResultOnlyAfterUpdate ==
    /\ Results # {} =>
          /\ pc = "Done"
          /\ Results = {Len(out)}
          /\ net[Len(net)].kind = "update"
          /\ net[Len(net)].resp.err = nil /\ net[Len(net)].resp.StatusCode = 200
          /\ Len(net) = Len(PathsOf(c)) + 2
          /\ LET text == out[Len(out)].text
             IN  /\ Len(text) = Len(PathsOf(c))
                 /\ \A i \in 1..Len(text) :
                       /\ text[i].Name = NameOf(PathsOf(c)[i])
                       /\ net[i + 1].kind = "upload"
                       /\ text[i].ID = net[i + 1].resp.Payload.id
                       /\ text[i].ContentType = net[i + 1].body.ContentType
                       /\ text[i].ContentType =
                             (IF text[i].Name = NameA THEN "application/json" ELSE "image/png")
    /\ pc \in {"Failed", "Aborted"} => Results = {}
    /\ pc = "Done" => Results # {}

\* C10 happens: the result of two files whose uploads returned different IDs
C10_Witness ==
    /\ pc = "Done" /\ Results # {}
    /\ Len(out[Len(out)].text) = 2
    /\ out[Len(out)].text[1].ID = "X" /\ out[Len(out)].text[2].ID = "Y"

\* the patch that updateIndexFile built, once it has built one
PatchBuilt == "patch" \in DOMAIN upd

\* C11: the patch of a run has as many entries as --files has paths, and its
\* i-th entry is that of the i-th path: its path ends in the file name of the
\* i-th path and its value is the ID returned for the i-th upload, also when
\* --files names the same file more than once.
C11_PatchInFileOrder ==
    PatchBuilt =>
        LET ops == OpsOf(upd.patch)
            paths == PathsOf(c)
        IN  /\ Len(ops) = Len(paths)
            /\ Len(f) = Len(paths)
            /\ \A i \in 1..Len(paths) :
                  /\ f[i].Name = NameOf(paths[i])
                  /\ ops[i].path = jsonPatchBasePath \o NameOf(paths[i])
                  /\ net[i + 1].kind = "upload"
                  /\ ops[i].value = net[i + 1].resp.Payload.id

\* C11 happens: the patch of a run whose --files names the same file twice,
\* the two uploads having returned different IDs
C11_Witness ==
    /\ PatchBuilt
    /\ Len(OpsOf(upd.patch)) = 2
    /\ OpsOf(upd.patch)[1].value = "X" /\ OpsOf(upd.patch)[2].value = "Y"
    /\ OpsOf(upd.patch)[1].path = OpsOf(upd.patch)[2].path
    /\ f[1].Name = NameA /\ f[2].Name = NameA

\* the requests sent so far that are GETs of the index document
Gets == {i \in 1..Len(net) : net[i].method = "GET"}

\* the mapping of the index document as the GET of this run returned it
Snapshot == net[1].resp.Payload.doc.Mappings

\* C12: a run sends at most one GET of the index document, as its first
\* request and so before every upload, and exactly one once run() is past the
\* fetch; the index it holds stays the one that GET returned; and each entry
\* of the patch has op "replace" exactly when its file name is a key of that
\* fetched mapping, whatever mapping the server holds when the patch is built.
C12_PatchFromSnapshot ==
    /\ Gets \subseteq {1}
    /\ \A i \in Gets : net[i].kind = "index" /\ net[i].url = c.fileIndexURL
    /\ \A i \in Posts : i > 1 /\ FetchSucceeded
    /\ pc \in {"IndexFetched", "FilesLoaded", "Confirmed", "Uploaded",
               "IndexUpdated", "Done", "Aborted"} =>
          /\ Gets = {1}
          /\ FetchSucceeded
          /\ fileIdx.Mappings = Snapshot
    /\ PatchBuilt =>
          /\ Gets = {1}
          /\ \A i \in 1..Len(PathsOf(c)) :
                LET e == OpsOf(upd.patch)[i]
                    name == NameOf(PathsOf(c)[i])
                IN  /\ (\E n \in DOMAIN Snapshot : n = name) => e.op = "replace"
                    /\ (\A n \in DOMAIN Snapshot : n # name) => e.op = "add"

\* C12 happens: another writer added to the server's mapping a name this run
\* uploads, after the fetch and before the patch was built (the run ended in
\* the step that built the patch, and the writer does not act after the end
\* of the run), and the patch has "add" for that name
C12_Witness ==
    /\ PatchBuilt
    /\ pc = "Failed"
    /\ server.writes = 1
    /\ \E i \in 1..Len(f) :
          /\ f[i].Name \in DOMAIN server.mappings
          /\ f[i].Name \notin DOMAIN Snapshot
          /\ OpsOf(upd.patch)[i].op = "add"

\* the requests sent so far that are POSTs of the index update
Updates == {i \in 1..Len(net) : net[i].kind = "update"}

\* C13: a run sends at most one POST of the index update, as its last
\* request, after one successful upload for every loaded file, each file
\* holding the ID its upload returned; the POST goes to the index document
\* URL cut before its last '/'; and when its response is an error or has a
\* status other than 200 the run fails.
C13_UpdatePostedOnceToBaseURL ==
    /\ Cardinality(Updates) <= 1
    /\ \A u \in Updates :
          /\ u = Len(net)
          /\ net[u].method = "POST"
          /\ Len(f) = Len(PathsOf(c))
          /\ u = Len(f) + 2
          /\ \A i \in 1..Len(f) :
                /\ net[i + 1].kind = "upload"
                /\ net[i + 1].resp.err = nil
                /\ net[i + 1].resp.StatusCode = 200
                /\ net[i + 1].resp.Payload.wellFormed
                /\ f[i].ID = net[i + 1].resp.Payload.id
                /\ f[i].ID \in IDs
          /\ \E tail \in {SubSeq(c.fileIndexURL, k, Len(c.fileIndexURL)) :
                             k \in 1..(Len(c.fileIndexURL) + 1)} :
                /\ c.fileIndexURL = net[u].url \o <<"/">> \o tail
                /\ \A k \in 1..Len(tail) : tail[k] # "/"
          /\ (net[u].resp.err # nil \/ net[u].resp.StatusCode # 200) =>
                pc = "Failed" /\ err # nil
          /\ (net[u].resp.err = nil /\ net[u].resp.StatusCode = 200) =>
                \/ pc \in {"IndexUpdated", "Done"} /\ err = nil
                \/ pc = "Failed" /\ err = errWrite

\* C13 happens: after two uploads the update was POSTed to "http://h/file"
\* and answered with status 500, and the run failed
C13_Witness ==
    /\ Updates = {4}
    /\ net[4].url = <<"h", "t", "t", "p", ":", "/", "/", "h", "/", "f", "i", "l", "e">>
    /\ net[4].resp.err = nil /\ net[4].resp.StatusCode = 500
    /\ pc = "Failed"
    /\ f[1].ID = "X" /\ f[2].ID = "Y"

\* the index URL of the command has a '/' and no ':'
SlashButNoColon ==
    /\ \E i \in 1..Len(c.fileIndexURL) : c.fileIndexURL[i] = "/"
    /\ \A i \in 1..Len(c.fileIndexURL) : c.fileIndexURL[i] # ":"

\* C14: an index URL with a '/' and no ':' passes validateAndProcessArgs when
\* the other flags are valid (the run goes on to the index GET); the error of
\* the missing unique suffix is raised only for an index URL without ':',
\* after the accepted index GET and one successful upload for every file (at
\* least one), the uploaded contents being in DCAS, and without any POST of
\* the index update; a run with such a URL that has uploaded every file fails
\* with that error, and none with such a URL ever updates the index.
C14_MissingSuffixOnlyAfterUploads ==
    /\ (SlashButNoColon /\ FlagsValid(variant, c) /\ c.file # <<>> /\ pc # "PreRun") =>
          /\ pc = "Init" \/ Len(net) >= 1
          /\ pc = "Init" => err = nil
          /\ err # errInvalidFileIndexURL
    /\ err = errNoUniqueSuffix =>
          /\ pc = "Failed"
          /\ \A i \in 1..Len(c.fileIndexURL) : c.fileIndexURL[i] # ":"
          /\ FetchSucceeded
          /\ Len(f) >= 1
          /\ Len(f) = Len(PathsOf(c))
          /\ uploaded = Len(f)
          /\ Len(net) = Len(f) + 1
          /\ \A i \in 1..Len(f) :
                /\ net[i + 1].kind = "upload"
                /\ net[i + 1].resp.err = nil /\ net[i + 1].resp.StatusCode = 200
                /\ f[i].ID = net[i + 1].resp.Payload.id
          /\ Len(dcas) = Len(f)
          /\ \A i \in 1..Len(f) : dcas[i].Content = f[i].Content
          /\ Updates = {}
    /\ SlashButNoColon =>
          /\ Updates = {}
          /\ pc \notin {"IndexUpdated", "Done"}
          /\ PatchBuilt => pc = "Failed" /\ err = errNoUniqueSuffix

\* C14 happens: with the index URL "h/file/idx" two files were uploaded and
\* stored, and the run then failed for the missing unique suffix
C14_Witness ==
    /\ c.fileIndexURL = IdxUrlNoColon
    /\ pc = "Failed" /\ err = errNoUniqueSuffix
    /\ Len(dcas) = 2
    /\ Len(net) = 3
    /\ net[3].kind = "upload"

====
